---- MODULE Spec2Model ----
(***************************************************************************)
(* Model of scripts/analyze_temporal_kgs.py: the statistics engine for     *)
(* temporal knowledge-graph datasets.  One behaviour is one dataset's pass *)
(* of analyze(): files are opened, read line by line into a per-file       *)
(* Stats, merged into the aggregate, and the aggregate is summarized.      *)
(* files, file and file_stats record the input consumed so far and the     *)
(* Stats each process_file call returned.  A second specification,         *)
(* MainSpec, is the whole run of main(): discovery of the dataset          *)
(* directories, analyze() over each of them, then the report and the       *)
(* JSON document.                                                          *)
(*                                                                         *)
(* Text is modelled at character level: a string is a sequence of          *)
(* one-character strings, so that strip, split, digit extraction, int()    *)
(* and strptime() are computed as the code computes them.  An optional     *)
(* value (Python None or a value) is a sequence of length 0 or 1.          *)
(***************************************************************************)
EXTENDS Integers, Sequences, FiniteSets, TLC

VARIABLES dataset, pc, files, file, stats, aggregate, file_stats, results,
          base_dir, include, datasets, stdout, json_file, outcome

\* the command line, the directory listing and the effects of main()
main_vars == <<base_dir, include, datasets, stdout, json_file, outcome>>

vars == <<dataset, pc, files, file, stats, aggregate, file_stats, results,
          main_vars>>

(***************************************************************************)
(* Bounds of the model.                                                    *)
(***************************************************************************)
\* total number of lines read in one run
MaxLines == 3
\* number of split files of the dataset
MaxFiles == 3
\* largest top_n tried
MaxTopN == 2
\* number of split files of one dataset in a run of main()
MaxRunFiles == 2

(***************************************************************************)
(* Strings as character sequences.                                         *)
(***************************************************************************)
None == <<>>

Some(v) == <<v>>

Tab == "\t"

\* str.strip() with no argument and int() remove these from both ends: the
\* characters str.isspace() holds for, up to U+00FF (TAB, LF, VT, FF, CR,
\* U+001C..U+001F, space, U+0085 and U+00A0)
Whitespace ==
    { "\t", "\n", "", "\f", "\r", "", "", "", "", " ", "", " " }

\* the decimal digits, which int() and strptime() read
DecimalChars == {"0", "1", "2", "3", "4", "5", "6", "7", "8", "9"}

\* str.isdigit() holds for the decimal digits and for the superscripts
\* U+00B2, U+00B3 and U+00B9, which int() rejects
DigitChars == DecimalChars \cup {"²", "³", "¹"}

DigitVal(ch) ==
    CASE ch = "0" -> 0 [] ch = "1" -> 1 [] ch = "2" -> 2 [] ch = "3" -> 3
      [] ch = "4" -> 4 [] ch = "5" -> 5 [] ch = "6" -> 6 [] ch = "7" -> 7
      [] ch = "8" -> 8 [] ch = "9" -> 9

DigitChar(n) ==
    CASE n = 0 -> "0" [] n = 1 -> "1" [] n = 2 -> "2" [] n = 3 -> "3"
      [] n = 4 -> "4" [] n = 5 -> "5" [] n = 6 -> "6" [] n = 7 -> "7"
      [] n = 8 -> "8" [] n = 9 -> "9"

isdigit(ch) == ch \in DigitChars

isdecimal(ch) == ch \in DecimalChars

RECURSIVE lstrip(_, _)
lstrip(s, chars) ==
    IF s # <<>> /\ Head(s) \in chars THEN lstrip(Tail(s), chars) ELSE s

RECURSIVE rstrip(_, _)
rstrip(s, chars) ==
    IF s # <<>> /\ s[Len(s)] \in chars
    THEN rstrip(SubSeq(s, 1, Len(s) - 1), chars)
    ELSE s

\* str.strip(chars): leading and trailing characters of the set removed
strip(s, chars) == rstrip(lstrip(s, chars), chars)

\* str.split(sep) for a one-character separator: always at least one token
RECURSIVE split(_, _)
split(s, sep) ==
    IF \E i \in 1..Len(s) : s[i] = sep
    THEN LET i == CHOOSE k \in 1..Len(s) :
                      s[k] = sep /\ \A j \in 1..(k - 1) : s[j] # sep
         IN  <<SubSeq(s, 1, i - 1)>> \o split(SubSeq(s, i + 1, Len(s)), sep)
    ELSE <<s>>

\* value of a sequence of decimal digit characters
RECURSIVE DecimalValue(_)
DecimalValue(ds) ==
    IF ds = <<>> THEN 0
    ELSE 10 * DecimalValue(SubSeq(ds, 1, Len(ds) - 1)) + DigitVal(ds[Len(ds)])

\* n written with at least w decimal digits (n >= 0)
RECURSIVE ZeroPad(_, _)
ZeroPad(n, w) ==
    IF n < 10 /\ w <= 1 THEN <<DigitChar(n)>>
    ELSE ZeroPad(n \div 10, w - 1) \o <<DigitChar(n % 10)>>

\* the digits of an int() literal: digits with single underscores between
IsIntBody(s) ==
    /\ s # <<>>
    /\ \A i \in 1..Len(s) : isdecimal(s[i]) \/ s[i] = "_"
    /\ isdecimal(s[1]) /\ isdecimal(s[Len(s)])
    /\ \A i \in 1..(Len(s) - 1) : ~(s[i] = "_" /\ s[i + 1] = "_")

\* int() skips these at both ends: the whitespace of str.strip() without
\* U+001C..U+001F (TAB, LF, VT, FF, CR, space, U+0085 and U+00A0)
IntWhitespace == Whitespace \ {"", "", "", ""}

\* int(s): None when Python raises ValueError, else the value
int(s) ==
    LET t    == strip(s, IntWhitespace)
        neg  == t # <<>> /\ t[1] = "-"
        body == IF t # <<>> /\ t[1] \in {"+", "-"} THEN Tail(t) ELSE t
        v    == DecimalValue(SelectSeq(body, isdecimal))
    IN  IF IsIntBody(body) THEN Some(IF neg THEN 0 - v ELSE v) ELSE None

(***************************************************************************)
(* Calendar dates: datetime.strptime(s, "%Y-%m-%d") and date.isoformat().  *)
(***************************************************************************)
IsLeap(y) == (y % 4 = 0 /\ y % 100 # 0) \/ y % 400 = 0

DaysInMonth(y, m) ==
    IF m = 2 THEN (IF IsLeap(y) THEN 29 ELSE 28)
    ELSE IF m \in {4, 6, 9, 11} THEN 30 ELSE 31

\* every character matches the \d of strptime's pattern
AllDigits(s) == \A i \in 1..Len(s) : isdecimal(s[i])

\* %m is 1[0-2]|0[1-9]|[1-9]; %d is 3[01]|[12]\d|0[1-9]|[1-9]| [1-9]
strptime(s) ==
    LET parts == split(s, "-")
        ys    == parts[1]
        ms    == parts[2]
        ds0   == parts[3]
        ds    == IF Len(ds0) = 2 /\ ds0[1] = " " THEN Tail(ds0) ELSE ds0
        y     == DecimalValue(ys)
        m     == DecimalValue(ms)
        d     == DecimalValue(ds)
    IN  IF /\ Len(parts) = 3
           /\ Len(ys) = 4 /\ AllDigits(ys)
           /\ Len(ms) \in {1, 2} /\ AllDigits(ms)
           /\ Len(ds) \in {1, 2} /\ AllDigits(ds)
           /\ y >= 1
           /\ m \in 1..12
           /\ d >= 1 /\ d <= DaysInMonth(y, m)
        THEN Some(<<y, m, d>>)
        ELSE None

\* date < date
DateLess(a, b) ==
    \/ a[1] < b[1]
    \/ a[1] = b[1] /\ a[2] < b[2]
    \/ a[1] = b[1] /\ a[2] = b[2] /\ a[3] < b[3]

isoformat(dt) ==
    ZeroPad(dt[1], 4) \o <<"-">> \o ZeroPad(dt[2], 2) \o <<"-">> \o ZeroPad(dt[3], 2)

(***************************************************************************)
(* collections.Counter: the (key, count) pairs in first-insertion order.   *)
(***************************************************************************)
CounterHas(c, k) == \E i \in 1..Len(c) : c[i][1] = k

CounterGet(c, k) ==
    IF CounterHas(c, k)
    THEN c[CHOOSE i \in 1..Len(c) : c[i][1] = k][2]
    ELSE 0

CounterKeys(c) == {c[i][1] : i \in 1..Len(c)}

\* c[k] += n : an existing key keeps its place, a new key goes last
CounterAdd(c, k, n) ==
    IF CounterHas(c, k)
    THEN [i \in 1..Len(c) |-> IF c[i][1] = k THEN <<k, c[i][2] + n>> ELSE c[i]]
    ELSE Append(c, <<k, n>>)

\* Counter.update(other) adding other's items last to first
RECURSIVE CounterUpdate_reversed(_, _)
CounterUpdate_reversed(c, other) ==
    IF other = <<>> THEN c
    ELSE CounterAdd(CounterUpdate_reversed(c, Tail(other)),
                    Head(other)[1], Head(other)[2])

\* Counter.update(other): other's items added in other's order
RECURSIVE CounterUpdate(_, _)
CounterUpdate(c, other) ==
    IF other = <<>> THEN c
    ELSE CounterUpdate(CounterAdd(c, Head(other)[1], Head(other)[2]), Tail(other))

\* the sort step made unstable: item goes before the pairs of equal count
RECURSIVE InsertByCount_unstable(_, _)
InsertByCount_unstable(sorted, item) ==
    IF sorted # <<>> /\ Head(sorted)[2] > item[2]
    THEN <<Head(sorted)>> \o InsertByCount_unstable(Tail(sorted), item)
    ELSE <<item>> \o sorted

\* one step of a stable descending sort: item goes after every pair whose
\* count is at least its own
RECURSIVE InsertByCount(_, _)
InsertByCount(sorted, item) ==
    IF sorted # <<>> /\ Head(sorted)[2] >= item[2]
    THEN <<Head(sorted)>> \o InsertByCount(Tail(sorted), item)
    ELSE <<item>> \o sorted

RECURSIVE SortedByCount(_)
SortedByCount(c) ==
    IF c = <<>> THEN <<>>
    ELSE InsertByCount(SortedByCount(SubSeq(c, 1, Len(c) - 1)), c[Len(c)])

\* Counter.most_common(n), n an integer: heapq.nlargest is the stable
\* sorted(items, key=count, reverse=True)[:n], and empty for n <= 0
most_common(c, n) ==
    LET s == SortedByCount(c)
    IN  IF n <= 0 THEN <<>>
        ELSE SubSeq(s, 1, IF n < Len(s) THEN n ELSE Len(s))

(***************************************************************************)
(* Stats and the operations on it.  An operation that ends in an uncaught  *)
(* ValueError has the value ValueError instead of its result; its          *)
(* ..._raises predicate tells so from the input.                           *)
(***************************************************************************)
ValueError == "ValueError"

init_stats ==
    [ triples                 |-> 0,
      subjects                |-> {},
      objects                 |-> {},
      relations               |-> {},
      subject_counter         |-> <<>>,
      object_counter          |-> <<>>,
      entity_counter          |-> <<>>,
      relation_counter        |-> <<>>,
      year_counter            |-> <<>>,
      temporal_marker_counter |-> <<>>,
      temporal_records        |-> 0,
      min_date                |-> None,
      max_date                |-> None,
      min_year                |-> None,
      max_year                |-> None ]

\* the capitals str.lower() changes, up to U+00FF: A..Z and U+00C0..U+00DE
\* without the multiplication sign U+00D7
UpperCase ==
    << "A", "B", "C", "D", "E", "F", "G", "H", "I", "J", "K", "L", "M",
       "N", "O", "P", "Q", "R", "S", "T", "U", "V", "W", "X", "Y", "Z",
       "À", "Á", "Â", "Ã", "Ä", "Å", "Æ", "Ç", "È", "É", "Ê", "Ë", "Ì",
       "Í", "Î", "Ï", "Ð", "Ñ", "Ò", "Ó", "Ô", "Õ", "Ö", "Ø", "Ù", "Ú",
       "Û", "Ü", "Ý", "Þ" >>

\* their lower-case forms, in the same order: a..z and U+00E0..U+00FE
\* without the division sign U+00F7
LowerCase ==
    << "a", "b", "c", "d", "e", "f", "g", "h", "i", "j", "k", "l", "m",
       "n", "o", "p", "q", "r", "s", "t", "u", "v", "w", "x", "y", "z",
       "à", "á", "â", "ã", "ä", "å", "æ", "ç", "è", "é", "ê", "ë", "ì",
       "í", "î", "ï", "ð", "ñ", "ò", "ó", "ô", "õ", "ö", "ø", "ù", "ú",
       "û", "ü", "ý", "þ" >>

lower(s) ==
    [i \in 1..Len(s) |->
        IF \E k \in 1..Len(UpperCase) : UpperCase[k] = s[i]
        THEN LowerCase[CHOOSE k \in 1..Len(UpperCase) : UpperCase[k] = s[i]]
        ELSE s[i]]

\* sub in s
Contains(sub, s) ==
    \E i \in 1..(Len(s) - Len(sub) + 1) : SubSeq(s, i, i + Len(sub) - 1) = sub

guess_dataset_type(dataset_name) ==
    LET name == lower(dataset_name)
    IN  IF Contains(<<"i","c","e","w","s">>, name) THEN "icews"
        ELSE IF Contains(<<"w","i","k","i","d","a","t","a">>, name) THEN "wikidata"
        ELSE IF Contains(<<"y","a","g","o">>, name) THEN "yago"
        ELSE "generic"

\* the counts, sets and counters of merge_stats
merge_counts(acc, other) ==
    [acc EXCEPT
        !.triples                 = @ + other.triples,
        !.subjects                = @ \cup other.subjects,
        !.objects                 = @ \cup other.objects,
        !.relations               = @ \cup other.relations,
        !.subject_counter         = CounterUpdate(@, other.subject_counter),
        !.object_counter          = CounterUpdate(@, other.object_counter),
        !.entity_counter          = CounterUpdate(@, other.entity_counter),
        !.relation_counter        = CounterUpdate(@, other.relation_counter),
        !.year_counter            = CounterUpdate(@, other.year_counter),
        !.temporal_marker_counter = CounterUpdate(@, other.temporal_marker_counter),
        !.temporal_records        = @ + other.temporal_records]

\* the date range merged without the comparisons: other's bounds always win
merge_dates_no_compare(acc, other) ==
    IF other.min_date # None
    THEN [acc EXCEPT !.min_date = other.min_date, !.max_date = other.max_date]
    ELSE acc

\* the date range of merge_stats
merge_dates(acc, other) ==
    IF other.min_date # None
    THEN [acc EXCEPT
            !.min_date = IF acc.min_date = None
                            \/ DateLess(other.min_date[1], acc.min_date[1])
                         THEN other.min_date ELSE @,
            !.max_date = IF acc.max_date = None
                            \/ (other.max_date # None
                                /\ DateLess(acc.max_date[1], other.max_date[1]))
                         THEN other.max_date ELSE @]
    ELSE acc

\* the year range merged without the comparisons: other's bounds always win
merge_years_no_compare(acc, other) ==
    IF other.min_year # None
    THEN [acc EXCEPT !.min_year = other.min_year, !.max_year = other.max_year]
    ELSE acc

\* the year range of merge_stats
merge_years(acc, other) ==
    IF other.min_year # None
    THEN [acc EXCEPT
            !.min_year = IF acc.min_year = None \/ other.min_year[1] < acc.min_year[1]
                         THEN other.min_year ELSE @,
            !.max_year = IF acc.max_year = None
                            \/ (other.max_year # None
                                /\ other.max_year[1] > acc.max_year[1])
                         THEN other.max_year ELSE @]
    ELSE acc

\* merge_stats mutates acc; the model returns acc's new value
merge_stats(acc, other) ==
    merge_years(merge_dates(merge_counts(acc, other), other), other)

\* a contributed year: year_counter and the year range
add_year(st, year) ==
    [st EXCEPT
        !.year_counter = CounterAdd(@, year, 1),
        !.min_year = IF @ = None \/ year < @[1] THEN Some(year) ELSE @,
        !.max_year = IF @ = None \/ year > @[1] THEN Some(year) ELSE @]

\* a marker counted without the temporal record
add_marker_no_record(st, marker) ==
    [st EXCEPT !.temporal_marker_counter = CounterAdd(@, marker, 1)]

\* a marker: temporal_marker_counter and temporal_records
add_marker(st, marker) ==
    [st EXCEPT
        !.temporal_marker_counter = CounterAdd(@, marker, 1),
        !.temporal_records = @ + 1]

\* the date range kept with the two comparisons exchanged
parse_icews_swapped(tokens, st) ==
    IF Len(tokens) >= 4
    THEN LET dt == strptime(tokens[4])
         IN  IF dt = None THEN st
             ELSE [st EXCEPT
                     !.year_counter = CounterAdd(@, dt[1][1], 1),
                     !.min_date = IF @ = None \/ DateLess(@[1], dt[1]) THEN dt ELSE @,
                     !.max_date = IF @ = None \/ DateLess(dt[1], @[1]) THEN dt ELSE @]
    ELSE st

parse_icews(tokens, st) ==
    IF Len(tokens) >= 4
    THEN LET dt == strptime(tokens[4])
         IN  IF dt = None THEN st
             ELSE [st EXCEPT
                     !.year_counter = CounterAdd(@, dt[1][1], 1),
                     !.min_date = IF @ = None \/ DateLess(dt[1], @[1]) THEN dt ELSE @,
                     !.max_date = IF @ = None \/ DateLess(@[1], dt[1]) THEN dt ELSE @]
    ELSE st

parse_wikidata(tokens, st) ==
    IF Len(tokens) >= 5
    THEN LET marker     == tokens[4]
             year_token == strip(tokens[5], Whitespace)
             counted    == add_marker(st, marker)
             year       == int(year_token)
         IN  IF year_token # <<>> /\ year # None
             THEN add_year(counted, year[1])
             ELSE counted
    ELSE st

\* the yago branch raises: among the first 4 characters isdigit() holds
\* for, one is no decimal digit, and int(digits[:4]) is not caught
parse_yago_raises(tokens) ==
    /\ Len(tokens) >= 5
    /\ LET digits == SelectSeq(strip(tokens[5], {"\""}), isdigit)
       IN  Len(digits) >= 4 /\ int(SubSeq(digits, 1, 4)) = None

parse_yago(tokens, st) ==
    IF Len(tokens) >= 5
    THEN LET marker     == strip(tokens[4], {"<", ">", "\""})
             date_token == strip(tokens[5], {"\""})
             counted    == add_marker(st, marker)
             digits     == SelectSeq(date_token, isdigit)
             year       == int(SubSeq(digits, 1, 4))
         IN  IF Len(digits) >= 4
             THEN IF year = None THEN ValueError
                  ELSE add_year(counted, year[1])
             ELSE counted
    ELSE st

\* the Stats as the yago branch leaves it when int() raises: the marker and
\* the temporal record are counted already
parse_yago_at_raise(tokens, st) ==
    add_marker(st, strip(tokens[4], {"<", ">", "\""}))

\* parse_temporal_tokens raises ValueError on these tokens
parse_temporal_tokens_raises(tokens, dataset_type) ==
    dataset_type = "yago" /\ parse_yago_raises(tokens)

parse_temporal_tokens(tokens, dataset_type, st) ==
    CASE dataset_type = "icews"    -> parse_icews(tokens, st)
      [] dataset_type = "wikidata" -> parse_wikidata(tokens, st)
      [] dataset_type = "yago"     -> parse_yago(tokens, st)
      [] OTHER                     -> st

\* the triple counted with an entity that is subject and object counted once
count_triple_entity_once(st, subj, rel, obj) ==
    [st EXCEPT
        !.triples          = @ + 1,
        !.subjects         = @ \cup {subj},
        !.objects          = @ \cup {obj},
        !.relations        = @ \cup {rel},
        !.subject_counter  = CounterAdd(@, subj, 1),
        !.object_counter   = CounterAdd(@, obj, 1),
        !.entity_counter   = IF subj = obj THEN CounterAdd(@, subj, 1)
                             ELSE CounterAdd(CounterAdd(@, subj, 1), obj, 1),
        !.relation_counter = CounterAdd(@, rel, 1)]

\* the triple part of one accepted line
count_triple(st, subj, rel, obj) ==
    [st EXCEPT
        !.triples          = @ + 1,
        !.subjects         = @ \cup {subj},
        !.objects          = @ \cup {obj},
        !.relations        = @ \cup {rel},
        !.subject_counter  = CounterAdd(@, subj, 1),
        !.object_counter   = CounterAdd(@, obj, 1),
        !.entity_counter   = CounterAdd(CounterAdd(@, subj, 1), obj, 1),
        !.relation_counter = CounterAdd(@, rel, 1)]

\* the columns process_file sees: the line stripped, then split on tabs
line_tokens(raw_line) == split(strip(raw_line, Whitespace), Tab)

\* the iteration of process_file's loop on this line raises ValueError
process_line_raises(raw_line, dataset_type) ==
    LET tokens == line_tokens(raw_line)
    IN  /\ strip(raw_line, Whitespace) # <<>>
        /\ Len(tokens) >= 3
        /\ parse_temporal_tokens_raises(tokens, dataset_type)

\* the Stats of process_file as the raising iteration leaves it: the triple
\* of the line and its marker are counted
process_line_at_raise(st, raw_line, dataset_type) ==
    LET tokens == line_tokens(raw_line)
    IN  parse_yago_at_raise(tokens, count_triple(st, tokens[1], tokens[2], tokens[3]))

\* one iteration of process_file's loop: the Stats after it, or ValueError
process_line(st, raw_line, dataset_type) ==
    LET line   == strip(raw_line, Whitespace)
        tokens == line_tokens(raw_line)
    IN  IF line = <<>> THEN st
        ELSE IF Len(tokens) < 3 THEN st
        ELSE parse_temporal_tokens(
                 tokens, dataset_type,
                 count_triple(st, tokens[1], tokens[2], tokens[3]))

\* process_file on the lines of one file
RECURSIVE process_lines(_, _, _)
process_lines(st, lines, dataset_type) ==
    IF lines = <<>> THEN st
    ELSE IF process_line_raises(Head(lines), dataset_type) THEN ValueError
    ELSE process_lines(process_line(st, Head(lines), dataset_type),
                       Tail(lines), dataset_type)

\* process_file raises ValueError on a file of these lines
process_file_raises(lines, dataset_type) ==
    \E i \in 1..Len(lines) : process_line_raises(lines[i], dataset_type)

\* the Stats process_file returns, or ValueError
process_file(lines, dataset_type) == process_lines(init_stats, lines, dataset_type)

summarize(st, n) ==
    [ triples          |-> st.triples,
      unique_subjects  |-> Cardinality(st.subjects),
      unique_objects   |-> Cardinality(st.objects),
      unique_relations |-> Cardinality(st.relations),
      top_entities     |-> most_common(st.entity_counter, n),
      top_subjects     |-> most_common(st.subject_counter, n),
      top_objects      |-> most_common(st.object_counter, n),
      top_relations    |-> most_common(st.relation_counter, n),
      top_years        |-> most_common(st.year_counter, n),
      temporal_markers |-> most_common(st.temporal_marker_counter, n),
      temporal_records |-> st.temporal_records,
      min_date         |-> IF st.min_date # None THEN Some(isoformat(st.min_date[1])) ELSE None,
      max_date         |-> IF st.max_date # None THEN Some(isoformat(st.max_date[1])) ELSE None,
      min_year         |-> st.min_year,
      max_year         |-> st.max_year ]

(***************************************************************************)
(* scripts/plot_yearly_trends.py: the yearly counts the chart tool draws.  *)
(***************************************************************************)
\* str.isdigit() of a whole string: not empty and isdigit() of every character
str_isdigit(s) == s # <<>> /\ \A i \in 1..Len(s) : isdigit(s[i])

\* the iteration of year_counts_for_file's loop on this line raises
\* ValueError: int() of the yago digits or of the generic column 4, which
\* isdigit() let through, is not caught
year_counts_for_line_raises(raw_line, dataset_type) ==
    LET line   == strip(raw_line, Whitespace)
        tokens == split(line, Tab)
    IN  /\ line # <<>>
        /\ CASE dataset_type = "icews" -> FALSE
             [] dataset_type = "wikidata" -> FALSE
             [] dataset_type = "yago" ->
                  /\ Len(tokens) >= 5
                  /\ LET digits == SelectSeq(tokens[5], isdigit)
                     IN  Len(digits) >= 4 /\ int(SubSeq(digits, 1, 4)) = None
             [] OTHER ->
                  /\ Len(tokens) >= 4
                  /\ str_isdigit(tokens[4])
                  /\ int(tokens[4]) = None

\* one iteration of year_counts_for_file's loop: the counter after it, or
\* ValueError
year_counts_for_line(counts, raw_line, dataset_type) ==
    LET line   == strip(raw_line, Whitespace)
        tokens == split(line, Tab)
    IN  IF line = <<>> THEN counts
        ELSE CASE dataset_type = "icews" ->
                    IF Len(tokens) >= 4
                    THEN LET dt == strptime(tokens[4])
                         IN  IF dt = None THEN counts
                             ELSE CounterAdd(counts, dt[1][1], 1)
                    ELSE counts
               [] dataset_type = "wikidata" ->
                    IF Len(tokens) >= 5
                    THEN LET year == int(strip(tokens[5], Whitespace))
                         IN  IF year = None THEN counts
                             ELSE CounterAdd(counts, year[1], 1)
                    ELSE counts
               [] dataset_type = "yago" ->
                    IF Len(tokens) >= 5
                    THEN LET digits == SelectSeq(tokens[5], isdigit)
                             year   == int(SubSeq(digits, 1, 4))
                         IN  IF Len(digits) >= 4
                             THEN IF year = None THEN ValueError
                                  ELSE CounterAdd(counts, year[1], 1)
                             ELSE counts
                    ELSE counts
               [] OTHER ->
                    IF Len(tokens) >= 4 /\ str_isdigit(tokens[4])
                    THEN LET year == int(tokens[4])
                         IN  IF year = None THEN ValueError
                             ELSE CounterAdd(counts, year[1], 1)
                    ELSE counts

RECURSIVE year_counts_for_lines(_, _, _)
year_counts_for_lines(counts, lines, dataset_type) ==
    IF lines = <<>> THEN counts
    ELSE IF year_counts_for_line_raises(Head(lines), dataset_type) THEN ValueError
    ELSE year_counts_for_lines(
             year_counts_for_line(counts, Head(lines), dataset_type),
             Tail(lines), dataset_type)

\* year_counts_for_file raises ValueError on a file of these lines
year_counts_for_file_raises(lines, dataset_type) ==
    \E i \in 1..Len(lines) : year_counts_for_line_raises(lines[i], dataset_type)

\* the counter year_counts_for_file returns, or ValueError
year_counts_for_file(lines, dataset_type) ==
    year_counts_for_lines(<<>>, lines, dataset_type)

(***************************************************************************)
(* Inputs: the dataset directory names and, per convention, the raw lines  *)
(* a split file may hold (each without its line terminator).               *)
(***************************************************************************)
\* ICEWS14, Wikidata, yago11k, gdelt
DatasetNames ==
    { <<"I", "C", "E", "W", "S", "1", "4">>,
      <<"W", "i", "k", "i", "d", "a", "t", "a">>,
      <<"y", "a", "g", "o", "1", "1", "k">>,
      <<"g", "d", "e", "l", "t">> }

\*   A<TAB>r<TAB>B<TAB>2010-05-01
\*   B<TAB>q<TAB>B<TAB>2009-12-31
\*   C<TAB>r<TAB>A<TAB>2010-13-01
\*   A<TAB>r<TAB><TAB>
IcewsLines ==
    { <<"A", "\t", "r", "\t", "B", "\t", "2", "0", "1", "0", "-", "0", "5", "-", "0", "1">>,
      <<"B", "\t", "q", "\t", "B", "\t", "2", "0", "0", "9", "-", "1", "2", "-", "3", "1">>,
      <<"C", "\t", "r", "\t", "A", "\t", "2", "0", "1", "0", "-", "1", "3", "-", "0", "1">>,
      <<"A", "\t", "r", "\t", "\t">> }

\*   A<TAB>r<TAB>B<TAB>since<TAB>1990
\*   B<TAB>q<TAB>B<TAB>until<TAB>1985
\*   C<TAB>r<TAB>A<TAB>since<TAB>19x
\*   A<TAB>r<TAB>B<TAB>since<TAB>
WikidataLines ==
    { <<"A", "\t", "r", "\t", "B", "\t", "s", "i", "n", "c", "e", "\t", "1", "9", "9", "0">>,
      <<"B", "\t", "q", "\t", "B", "\t", "u", "n", "t", "i", "l", "\t", "1", "9", "8", "5">>,
      <<"C", "\t", "r", "\t", "A", "\t", "s", "i", "n", "c", "e", "\t", "1", "9", "x">>,
      <<"A", "\t", "r", "\t", "B", "\t", "s", "i", "n", "c", "e", "\t">> }

\*   A<TAB>r<TAB>B<TAB><since><TAB>"1995-01-01"
\*   B<TAB>q<TAB>B<TAB><until><TAB>"476-09-04"
\*   C<TAB>r<TAB>A<TAB>"since"<TAB>"19##"
\*   A<TAB>r
\*   C<TAB>q<TAB>A<TAB><since><TAB>"19²95"   (superscript two: ValueError)
YagoLines ==
    { <<"A", "\t", "r", "\t", "B", "\t", "<", "s", "i", "n", "c", "e", ">", "\t", "\"", "1", "9", "9", "5", "-", "0", "1", "-", "0", "1", "\"">>,
      <<"B", "\t", "q", "\t", "B", "\t", "<", "u", "n", "t", "i", "l", ">", "\t", "\"", "4", "7", "6", "-", "0", "9", "-", "0", "4", "\"">>,
      <<"C", "\t", "r", "\t", "A", "\t", "\"", "s", "i", "n", "c", "e", "\"", "\t", "\"", "1", "9", "#", "#", "\"">>,
      <<"A", "\t", "r">>,
      <<"C", "\t", "q", "\t", "A", "\t", "<", "s", "i", "n", "c", "e", ">", "\t", "\"", "1", "9", "²", "9", "5", "\"">> }

\*   A<TAB>r<TAB>B<TAB>1990
\*   B<TAB>q<TAB>B
\*   C<TAB>r<TAB>A
\*   <TAB>r<TAB>B
GenericLines ==
    { <<"A", "\t", "r", "\t", "B", "\t", "1", "9", "9", "0">>,
      <<"B", "\t", "q", "\t", "B">>,
      <<"C", "\t", "r", "\t", "A">>,
      <<"\t", "r", "\t", "B">> }

Lines(dataset_type) ==
    CASE dataset_type = "icews"    -> IcewsLines
      [] dataset_type = "wikidata" -> WikidataLines
      [] dataset_type = "yago"     -> YagoLines
      [] OTHER                     -> GenericLines

(***************************************************************************)
(* The run of analyze() over one dataset directory.                        *)
(***************************************************************************)
dataset_type == guess_dataset_type(dataset)

RECURSIVE SumLen(_)
SumLen(ss) == IF ss = <<>> THEN 0 ELSE Len(Head(ss)) + SumLen(Tail(ss))

\* lines read so far in the run
LinesRead == SumLen(files) + (IF pc \in {"in_file", "raised"} THEN Len(file) ELSE 0)

Init ==
    /\ dataset \in DatasetNames
    /\ pc = "next_file"
    /\ files = <<>>
    /\ file = <<>>
    /\ stats = init_stats
    /\ aggregate = init_stats
    /\ file_stats = <<>>
    /\ results = None
    /\ base_dir = Some({[name |-> dataset, is_dir |-> TRUE]})
    /\ include = None
    /\ datasets = <<dataset>>
    /\ stdout = <<>>
    /\ json_file = None
    /\ outcome = None

\* process_file opens the next split file with a fresh Stats
OpenFile ==
    /\ pc = "next_file"
    /\ Len(files) < MaxFiles
    /\ pc' = "in_file"
    /\ file' = <<>>
    /\ stats' = init_stats
    /\ UNCHANGED <<dataset, files, aggregate, file_stats, results, main_vars>>

\* one iteration of process_file's loop over the file's lines; an uncaught
\* ValueError ends the run: process_file returns no Stats, and stats is its
\* Stats as the exception leaves it
ReadLine ==
    /\ pc = "in_file"
    /\ LinesRead < MaxLines
    /\ \E raw_line \in Lines(dataset_type) :
          /\ file' = Append(file, raw_line)
          /\ IF process_line_raises(raw_line, dataset_type)
             THEN /\ pc' = "raised"
                  /\ stats' = process_line_at_raise(stats, raw_line, dataset_type)
             ELSE /\ pc' = pc
                  /\ stats' = process_line(stats, raw_line, dataset_type)
    /\ UNCHANGED <<dataset, files, aggregate, file_stats, results, main_vars>>

\* end of file: process_file returns its Stats and analyze merges it
CloseFile ==
    /\ pc = "in_file"
    /\ pc' = "next_file"
    /\ files' = Append(files, file)
    /\ file_stats' = Append(file_stats, stats)
    /\ aggregate' = merge_stats(aggregate, stats)
    /\ UNCHANGED <<dataset, file, stats, results, main_vars>>

\* no file is left: the aggregate is summarized with the run's top_n
\* (per_file keeps its default, so no per-file summary is kept)
Summarize ==
    /\ pc = "next_file"
    /\ pc' = "done"
    /\ \E n \in 0..MaxTopN :
          results' = Some([top_n     |-> n,
                           aggregate |-> summarize(aggregate, n),
                           files     |-> <<>>])
    /\ UNCHANGED <<dataset, files, file, stats, aggregate, file_stats, main_vars>>

Next == OpenFile \/ ReadLine \/ CloseFile \/ Summarize

Spec == Init /\ [][Next]_vars

(***************************************************************************)
(* The whole run of main(): discover_datasets, analyze() over every        *)
(* selected dataset with one step per process_file call, then the report   *)
(* printed per dataset and the JSON document.                              *)
(***************************************************************************)
\* the characters in code point order: the whitespace controls, U+0020 to
\* U+007E without the grave accent (no TLA+ string holds it), U+0085 and
\* U+00A0 to U+00FF
CodePoints ==
    << "\t", "\n", "", "\f", "\r", "", "", "", "", " ", "!", "\"",
       "#", "$", "%", "&", "'", "(", ")", "*", "+", ",", "-", ".",
       "/", "0", "1", "2", "3", "4", "5", "6", "7", "8", "9", ":",
       ";", "<", "=", ">", "?", "@", "A", "B", "C", "D", "E", "F",
       "G", "H", "I", "J", "K", "L", "M", "N", "O", "P", "Q", "R",
       "S", "T", "U", "V", "W", "X", "Y", "Z", "[", "\\", "]", "^",
       "_", "a", "b", "c", "d", "e", "f", "g", "h", "i", "j",
       "k", "l", "m", "n", "o", "p", "q", "r", "s", "t", "u", "v",
       "w", "x", "y", "z", "{", "|", "}", "~", "", " ", "¡", "¢",
       "£", "¤", "¥", "¦", "§", "¨", "©", "ª", "«", "¬", "­", "®",
       "¯", "°", "±", "²", "³", "´", "µ", "¶", "·", "¸", "¹", "º",
       "»", "¼", "½", "¾", "¿", "À", "Á", "Â", "Ã", "Ä", "Å", "Æ",
       "Ç", "È", "É", "Ê", "Ë", "Ì", "Í", "Î", "Ï", "Ð", "Ñ", "Ò",
       "Ó", "Ô", "Õ", "Ö", "×", "Ø", "Ù", "Ú", "Û", "Ü", "Ý", "Þ",
       "ß", "à", "á", "â", "ã", "ä", "å", "æ", "ç", "è", "é", "ê",
       "ë", "ì", "í", "î", "ï", "ð", "ñ", "ò", "ó", "ô", "õ", "ö",
       "÷", "ø", "ù", "ú", "û", "ü", "ý", "þ", "ÿ" >>

ord(ch) == CHOOSE i \in 1..Len(CodePoints) : CodePoints[i] = ch

\* str < str
RECURSIVE StrLess(_, _)
StrLess(a, b) ==
    IF b = <<>> THEN FALSE
    ELSE IF a = <<>> THEN TRUE
    ELSE IF Head(a) = Head(b) THEN StrLess(Tail(a), Tail(b))
    ELSE ord(Head(a)) < ord(Head(b))

\* sorted(names) for the distinct names of a directory listing
RECURSIVE sorted(_)
sorted(names) ==
    IF names = {} THEN <<>>
    ELSE LET first == CHOOSE x \in names : \A y \in names \ {x} : StrLess(x, y)
         IN  <<first>> \o sorted(names \ {first})

\* discover_datasets on an existing base directory: the subdirectories in
\* sorted order, kept if their lowered name is in a non-empty include
discover_datasets(listing, names) ==
    LET entries == sorted({e.name : e \in {x \in listing : x.is_dir}})
    IN  IF names # None /\ names[1] # {}
        THEN LET include_lower == {lower(item) : item \in names[1]}
             IN  SelectSeq(entries, LAMBDA name : lower(name) \in include_lower)
        ELSE entries

\* the entries a base directory may hold: ICEWS14/, gdelt/ and notes.txt
DirEntries ==
    { [name |-> <<"I", "C", "E", "W", "S", "1", "4">>, is_dir |-> TRUE],
      [name |-> <<"g", "d", "e", "l", "t">>, is_dir |-> TRUE],
      [name |-> <<"n", "o", "t", "e", "s", ".", "t", "x", "t">>, is_dir |-> FALSE] }

\* base_dir: None when the path does not exist, else its listing
BaseDirs == {None} \cup {Some(listing) : listing \in SUBSET DirEntries}

\* --datasets (one name at least when given): absent, icews14, GDELT and
\* icews14, wikidata, notes.txt
Includes ==
    { None,
      Some({<<"i", "c", "e", "w", "s", "1", "4">>}),
      Some({<<"G", "D", "E", "L", "T">>, <<"i", "c", "e", "w", "s", "1", "4">>}),
      Some({<<"w", "i", "k", "i", "d", "a", "t", "a">>}),
      Some({<<"n", "o", "t", "e", "s", ".", "t", "x", "t">>}) }

\* the split files of a dataset directory: an empty file, or one line
\*   A<TAB>r<TAB>B<TAB>2010-05-01   (icews)
\*   A<TAB>r<TAB>B<TAB>1990         (generic)
SplitFiles(type) ==
    IF type = "icews"
    THEN { <<>>,
           << <<"A", "\t", "r", "\t", "B", "\t", "2", "0", "1", "0", "-", "0", "5", "-", "0", "1">> >> }
    ELSE { <<>>,
           << <<"A", "\t", "r", "\t", "B", "\t", "1", "9", "9", "0">> >> }

MainInit ==
    /\ base_dir \in BaseDirs
    /\ include \in Includes
    /\ pc = "discover"
    /\ dataset = <<>>
    /\ datasets = <<>>
    /\ files = <<>>
    /\ file = <<>>
    /\ stats = init_stats
    /\ aggregate = init_stats
    /\ file_stats = <<>>
    /\ results = <<>>
    /\ stdout = <<>>
    /\ json_file = None
    /\ outcome = None

\* analyze() starts: os.listdir raises when base_dir does not exist, and an
\* empty list of datasets raises SystemExit("No dataset folders found ...")
Discover ==
    /\ pc = "discover"
    /\ IF base_dir = None
       THEN /\ outcome' = Some("FileNotFoundError")
            /\ pc' = "exit"
            /\ UNCHANGED datasets
       ELSE LET found == discover_datasets(base_dir[1], include)
            IN  /\ datasets' = found
                /\ IF found = <<>>
                   THEN outcome' = Some("No dataset folders found") /\ pc' = "exit"
                   ELSE pc' = "next_dataset" /\ UNCHANGED outcome
    /\ UNCHANGED <<dataset, files, file, stats, aggregate, file_stats, results,
                   base_dir, include, stdout, json_file>>

\* the next dataset of the loop of analyze(): a fresh aggregate
StartDataset ==
    /\ pc = "next_dataset"
    /\ Len(results) < Len(datasets)
    /\ dataset' = datasets[Len(results) + 1]
    /\ aggregate' = init_stats
    /\ files' = <<>>
    /\ file_stats' = <<>>
    /\ pc' = "next_file"
    /\ UNCHANGED <<file, stats, results, main_vars>>

\* one split file: process_file returns its Stats, merged into the aggregate
ProcessFile ==
    /\ pc = "next_file"
    /\ Len(files) < MaxRunFiles
    /\ \E lines \in SplitFiles(dataset_type) :
          LET st == process_file(lines, dataset_type)
          IN  /\ file' = lines
              /\ stats' = st
              /\ files' = Append(files, lines)
              /\ file_stats' = Append(file_stats, st)
              /\ aggregate' = merge_stats(aggregate, st)
    /\ UNCHANGED <<dataset, pc, results, main_vars>>

\* one split file that cannot be opened or decoded: the exception of
\* process_file leaves analyze() and main()
ProcessFileError ==
    /\ pc = "next_file"
    /\ Len(files) < MaxRunFiles
    /\ outcome' = Some("process_file raised")
    /\ pc' = "exit"
    /\ UNCHANGED <<dataset, files, file, stats, aggregate, file_stats, results,
                   base_dir, include, datasets, stdout, json_file>>

\* the dataset's block printed as soon as its files are merged
FinishDataset_prints ==
    /\ pc = "next_file"
    /\ pc' = "next_dataset"
    /\ \E n \in 0..MaxTopN :
          /\ results # <<>> => n = results[1].top_n
          /\ results' = Append(results, [dataset   |-> dataset,
                                         top_n     |-> n,
                                         aggregate |-> summarize(aggregate, n),
                                         files     |-> <<>>])
    /\ stdout' = Append(stdout, dataset)
    /\ UNCHANGED <<dataset, files, file, stats, aggregate, file_stats,
                   base_dir, include, datasets, json_file, outcome>>

\* no file is left: results[dataset] is set, with the top_n of the run
FinishDataset ==
    /\ pc = "next_file"
    /\ pc' = "next_dataset"
    /\ \E n \in 0..MaxTopN :
          /\ results # <<>> => n = results[1].top_n
          /\ results' = Append(results, [dataset   |-> dataset,
                                         top_n     |-> n,
                                         aggregate |-> summarize(aggregate, n),
                                         files     |-> <<>>])
    /\ UNCHANGED <<dataset, files, file, stats, aggregate, file_stats, main_vars>>

\* analyze() returns its results to main()
Return ==
    /\ pc = "next_dataset"
    /\ Len(results) = Len(datasets)
    /\ pc' = "report"
    /\ UNCHANGED <<dataset, files, file, stats, aggregate, file_stats, results,
                   main_vars>>

\* main() prints the block of the next dataset of results
PrintDataset ==
    /\ pc = "report"
    /\ Len(stdout) < Len(results)
    /\ stdout' = Append(stdout, results[Len(stdout) + 1].dataset)
    /\ UNCHANGED <<dataset, pc, files, file, stats, aggregate, file_stats, results,
                   base_dir, include, datasets, json_file, outcome>>

\* after the report: without --json-output main() ends; with it the
\* document is written, unless the path cannot be opened for writing
WriteJson ==
    /\ pc = "report"
    /\ Len(stdout) = Len(results)
    /\ pc' = "exit"
    /\ \E json_output \in {"absent", "writable", "unwritable"} :
          /\ json_file' = IF json_output = "writable" THEN Some(results) ELSE None
          /\ outcome' = IF json_output = "unwritable"
                        THEN Some("open for writing raised")
                        ELSE Some("ok")
    /\ UNCHANGED <<dataset, files, file, stats, aggregate, file_stats, results,
                   base_dir, include, datasets, stdout>>

MainNext ==
    \/ Discover
    \/ StartDataset
    \/ ProcessFile
    \/ ProcessFileError
    \/ FinishDataset
    \/ Return
    \/ PrintDataset
    \/ WriteJson

MainSpec == MainInit /\ [][MainNext]_vars

(***************************************************************************)
(* Vocabulary of the properties.                                           *)
(***************************************************************************)
\* two frequency mappings compared as key -> count functions
SameCounts(c, d) ==
    /\ Len(c) = Len(d)
    /\ \A i \in 1..Len(c) : CounterGet(d, c[i][1]) = c[i][2]

\* two Stats equal field by field, the mappings as functions
SameStats(a, b) ==
    /\ a.triples = b.triples
    /\ a.temporal_records = b.temporal_records
    /\ a.subjects = b.subjects
    /\ a.objects = b.objects
    /\ a.relations = b.relations
    /\ SameCounts(a.subject_counter, b.subject_counter)
    /\ SameCounts(a.object_counter, b.object_counter)
    /\ SameCounts(a.entity_counter, b.entity_counter)
    /\ SameCounts(a.relation_counter, b.relation_counter)
    /\ SameCounts(a.year_counter, b.year_counter)
    /\ SameCounts(a.temporal_marker_counter, b.temporal_marker_counter)
    /\ a.min_date = b.min_date
    /\ a.max_date = b.max_date
    /\ a.min_year = b.min_year
    /\ a.max_year = b.max_year

RECURSIVE CounterTotal(_)
CounterTotal(c) == IF c = <<>> THEN 0 ELSE Head(c)[2] + CounterTotal(Tail(c))

HasTemporal(st) ==
    st.min_date # None \/ st.min_year # None \/ st.year_counter # <<>>

\* the Stats values the run has produced: every file's and the aggregate
Produced == {file_stats[i] : i \in 1..Len(file_stats)} \cup {stats, aggregate}

\* the raw line the last ReadLine consumed and the Stats it was applied to
LastLine == file[Len(file)]

StatsBefore == process_file(SubSeq(file, 1, Len(file) - 1), dataset_type)

\* the columns of a line as written in the file
Columns(raw_line) == split(raw_line, Tab)

\* some line has been read into the file being processed
AfterRead == pc = "in_file" /\ file # <<>>

(***************************************************************************)
(* C1.  merge_stats is commutative and associative: for the Stats of any   *)
(* two, and any three, files of the run (files of equal content and files  *)
(* without temporal data included), merging in either order and in either  *)
(* grouping gives the same counts, sets, frequency mappings (as            *)
(* key -> count functions) and min/max date and year.                      *)
(***************************************************************************)
C1_MergeCommutativeAssociative ==
    pc = "next_file" =>
        \A i, j \in 1..Len(file_stats) :
            i # j =>
                LET a  == file_stats[i]
                    b  == file_stats[j]
                    ab == merge_stats(a, b)
                IN  /\ SameStats(ab, merge_stats(b, a))
                    /\ \A k \in 1..Len(file_stats) \ {i, j} :
                          LET c == file_stats[k]
                          IN  SameStats(merge_stats(ab, c),
                                        merge_stats(a, merge_stats(b, c)))

\* three files, one without temporal data, the other two with different ranges
C1_Witness ==
    /\ pc = "next_file"
    /\ Len(file_stats) = 3
    /\ \E i, j, k \in 1..3 :
          /\ ~HasTemporal(file_stats[i])
          /\ file_stats[i].triples > 0
          /\ HasTemporal(file_stats[j])
          /\ HasTemporal(file_stats[k])
          /\ <<file_stats[j].min_date, file_stats[j].min_year>>
                # <<file_stats[k].min_date, file_stats[k].min_year>>

(***************************************************************************)
(* C5.  In every Stats the run produces (a file's, during and after its    *)
(* reading, and the aggregate after every merge), each entity's count in   *)
(* entity_counter is its count in subject_counter plus its count in        *)
(* object_counter, a missing key counting 0.                               *)
(***************************************************************************)
EntityCountsAddUp(st) ==
    \A e \in CounterKeys(st.entity_counter) \cup CounterKeys(st.subject_counter)
                \cup CounterKeys(st.object_counter) :
        CounterGet(st.entity_counter, e)
            = CounterGet(st.subject_counter, e) + CounterGet(st.object_counter, e)

\* C5: entity_counter[e] = subject_counter[e] + object_counter[e] in every
\* Stats the run produces.
C5_EntityIsSubjectPlusObject == \A st \in Produced : EntityCountsAddUp(st)

\* a merged aggregate holding an entity that was subject and object of one line
C5_Witness ==
    /\ Len(file_stats) >= 2
    /\ \E i \in 1..Len(files) : \E l \in 1..Len(files[i]) :
          LET t == line_tokens(files[i][l])
          IN  /\ Len(t) >= 3 /\ t[1] = t[3]
              /\ CounterGet(aggregate.entity_counter, t[1]) >= 3
              /\ CounterGet(aggregate.subject_counter, t[1]) >= 1
              /\ CounterGet(aggregate.object_counter, t[1]) >= 2

(***************************************************************************)
(* C6.  In every Stats the run produces, when min_date and max_date are    *)
(* both set min_date <= max_date, and when min_year and max_year are both  *)
(* set min_year <= max_year.                                               *)
(***************************************************************************)
RangesOrdered(st) ==
    /\ (st.min_date # None /\ st.max_date # None)
          => ~DateLess(st.max_date[1], st.min_date[1])
    /\ (st.min_year # None /\ st.max_year # None)
          => st.min_year[1] <= st.max_year[1]

\* C6: min_date <= max_date and min_year <= max_year, when both are set, in
\* every Stats the run produces.
C6_MinNotAboveMax == \A st \in Produced : RangesOrdered(st)

\* an aggregate with a proper date range, merged from a file without
\* temporal data followed by files with different dates
C6_Witness ==
    /\ Len(file_stats) = 3
    /\ ~HasTemporal(file_stats[1])
    /\ file_stats[2].min_date # None
    /\ file_stats[3].min_date # None
    /\ DateLess(file_stats[3].max_date[1], file_stats[2].min_date[1])
    /\ aggregate.min_date = file_stats[3].min_date
    /\ aggregate.max_date = file_stats[2].max_date

(***************************************************************************)
(* C2.  File order and the aggregate Summary.                              *)
(***************************************************************************)
\* the aggregates analyze's fold reaches from acc when the files indexed by
\* rest are merged in every possible order
RECURSIVE AggregatesInAnyOrder(_, _)
AggregatesInAnyOrder(acc, rest) ==
    IF rest = {} THEN {acc}
    ELSE UNION {AggregatesInAnyOrder(merge_stats(acc, file_stats[i]), rest \ {i}) :
                   i \in rest}

\* the aggregates of the run's files over all orders of the files
AllOrderAggregates == AggregatesInAnyOrder(init_stats, 1..Len(file_stats))

Frequencies(ranking) == [i \in 1..Len(ranking) |-> ranking[i][2]]

\* two Summaries equal but for which keys of equal frequency are ranked
SameSummaryUpToTies(x, y) ==
    /\ x.triples = y.triples
    /\ x.unique_subjects = y.unique_subjects
    /\ x.unique_objects = y.unique_objects
    /\ x.unique_relations = y.unique_relations
    /\ x.temporal_records = y.temporal_records
    /\ x.min_date = y.min_date
    /\ x.max_date = y.max_date
    /\ x.min_year = y.min_year
    /\ x.max_year = y.max_year
    /\ Frequencies(x.top_entities) = Frequencies(y.top_entities)
    /\ Frequencies(x.top_subjects) = Frequencies(y.top_subjects)
    /\ Frequencies(x.top_objects) = Frequencies(y.top_objects)
    /\ Frequencies(x.top_relations) = Frequencies(y.top_relations)
    /\ Frequencies(x.top_years) = Frequencies(y.top_years)
    /\ Frequencies(x.temporal_markers) = Frequencies(y.temporal_markers)

\* C2 as stated: whatever the order in which the files are folded, the
\* Summary is the same, the content and order of every ranking included.
C2_SummaryIndependentOfFileOrder ==
    pc = "done" =>
        \A agg \in AllOrderAggregates :
            summarize(agg, results[1].top_n) = results[1].aggregate

\* C2 as amended: whatever the order in which the files are folded, the
\* aggregate is the same Stats with the mappings compared as key -> count
\* functions, and the Summary has the same totals, cardinalities, ranges
\* and the same sequence of frequencies in every ranking; only which keys
\* of equal frequency are ranked, and in what order, follows the file order.
C2_SummaryIndependentUpToTies ==
    pc = "done" =>
        \A agg \in AllOrderAggregates :
            /\ SameStats(agg, aggregate)
            /\ SameSummaryUpToTies(summarize(agg, results[1].top_n),
                                   results[1].aggregate)

\* a run of several files with temporal data whose Summary does change with
\* the file order
C2_Witness ==
    /\ pc = "done"
    /\ Len(file_stats) >= 2
    /\ HasTemporal(aggregate)
    /\ \E agg \in AllOrderAggregates :
          summarize(agg, results[1].top_n) # results[1].aggregate

(***************************************************************************)
(* C3.  While a file is read, triples is the number of its non-blank lines *)
(* that have at least 3 tab-separated columns as written, each of which    *)
(* leaves its columns 1, 2, 3 in subjects, relations, objects; a line with *)
(* fewer columns changes nothing.                                          *)
(***************************************************************************)
AcceptedAsWritten ==
    {i \in 1..Len(file) :
        strip(file[i], Whitespace) # <<>> /\ Len(Columns(file[i])) >= 3}

\* C3: triples counts the accepted lines as written, their columns are in
\* the sets, and a line of fewer than 3 columns changes nothing.
C3_TriplesCountLinesAsWritten ==
    pc = "in_file" =>
        /\ stats.triples = Cardinality(AcceptedAsWritten)
        /\ \A i \in AcceptedAsWritten :
              /\ Columns(file[i])[1] \in stats.subjects
              /\ Columns(file[i])[2] \in stats.relations
              /\ Columns(file[i])[3] \in stats.objects
        /\ (file # <<>> /\ Len(Columns(LastLine)) < 3) => stats = StatsBefore

(***************************************************************************)
(* C4.  temporal_records and the year contributions.                       *)
(***************************************************************************)
RecordsCoverYears(st) == st.temporal_records >= CounterTotal(st.year_counter)

\* C4 as stated: in every Stats the run produces, for every dataset type,
\* temporal_records is at least the sum of the counts of year_counter.
C4_RecordsCoverYearsAllTypes == \A st \in Produced : RecordsCoverYears(st)

\* C4 as amended: in every Stats the run produces for a LinkedData,
\* FactExtraction or Generic dataset, temporal_records is at least the sum
\* of the counts of year_counter; for an EventCalendar dataset
\* temporal_records stays 0 whatever year_counter holds.
C4_RecordsCoverYearsUnlessEventCalendar ==
    \A st \in Produced :
        IF dataset_type = "icews"
        THEN st.temporal_records = 0
        ELSE RecordsCoverYears(st)

\* a merged aggregate with a year and with a marker whose year did not parse
C4_Witness ==
    /\ dataset_type # "icews"
    /\ Len(file_stats) >= 2
    /\ CounterTotal(aggregate.year_counter) >= 1
    /\ aggregate.temporal_records > CounterTotal(aggregate.year_counter)

(***************************************************************************)
(* C7.  After an EventCalendar line with at least 4 columns whose column 4 *)
(* is no valid date, the Stats is the one before the line with the triple  *)
(* of columns 1, 2, 3 counted once and nothing else changed.               *)
(***************************************************************************)
C7_BadDateKeepsTriple ==
    (/\ AfterRead
     /\ dataset_type = "icews"
     /\ Len(Columns(LastLine)) >= 4
     /\ strptime(Columns(LastLine)[4]) = None)
    => stats = count_triple(StatsBefore, Columns(LastLine)[1],
                            Columns(LastLine)[2], Columns(LastLine)[3])

(***************************************************************************)
(* C8.  After a LinkedData line with at least 5 columns, temporal_records  *)
(* and the count of the column-4 marker are each one more than before, and *)
(* year_counter has one more at the parsed year when the trimmed column 5  *)
(* is a non-empty integer, and is unchanged otherwise.                     *)
(***************************************************************************)
C8_MarkerCountedWhateverTheYear ==
    (/\ AfterRead
     /\ dataset_type = "wikidata"
     /\ Len(Columns(LastLine)) >= 5)
    => LET cols       == Columns(LastLine)
           before     == StatsBefore
           year_token == strip(cols[5], Whitespace)
           year       == int(year_token)
       IN  /\ stats.temporal_records = before.temporal_records + 1
           /\ CounterGet(stats.temporal_marker_counter, cols[4])
                 = CounterGet(before.temporal_marker_counter, cols[4]) + 1
           /\ SameCounts(stats.year_counter,
                         IF year_token # <<>> /\ year # None
                         THEN CounterAdd(before.year_counter, year[1], 1)
                         ELSE before.year_counter)

(***************************************************************************)
(* C9.  After a FactExtraction line with at least 5 columns, the stripped  *)
(* marker is counted and temporal_records is one more than before; the     *)
(* year is the first 4 digits of the leading run of digits of the          *)
(* quote-stripped column 5 when that run has at least 4 digits, and no     *)
(* year is contributed otherwise.                                          *)
(***************************************************************************)
RECURSIVE LeadingDigits(_)
LeadingDigits(s) ==
    IF s # <<>> /\ isdigit(Head(s))
    THEN <<Head(s)>> \o LeadingDigits(Tail(s))
    ELSE <<>>

\* C9: the year of a FactExtraction line is the first 4 digits of the leading
\* digit run of column 5, if that run has 4 digits; the marker is counted.
C9_YearFromLeadingDigitRun ==
    (/\ AfterRead
     /\ dataset_type = "yago"
     /\ Len(Columns(LastLine)) >= 5)
    => LET cols   == Columns(LastLine)
           before == StatsBefore
           marker == strip(cols[4], {"<", ">", "\""})
           run    == LeadingDigits(strip(cols[5], {"\""}))
       IN  /\ stats.temporal_records = before.temporal_records + 1
           /\ CounterGet(stats.temporal_marker_counter, marker)
                 = CounterGet(before.temporal_marker_counter, marker) + 1
           /\ SameCounts(stats.year_counter,
                         IF Len(run) >= 4
                         THEN CounterAdd(before.year_counter,
                                         DecimalValue(SubSeq(run, 1, 4)), 1)
                         ELSE before.year_counter)

(***************************************************************************)
(* C10.  Every ranking of the Summary has min(top_n, number of keys)       *)
(* entries of its mapping, in non-increasing frequency; no omitted key has *)
(* a higher frequency than a returned one; keys of equal frequency are     *)
(* ranked, and cut off, in the order of their first insertion.             *)
(***************************************************************************)
Position(c, k) == CHOOSE p \in 1..Len(c) : c[p][1] = k

TopNOf(c, r, n) ==
    /\ Len(r) = IF n < Len(c) THEN n ELSE Len(c)
    /\ \A i \in 1..Len(r) : \E p \in 1..Len(c) : c[p] = r[i]
    /\ \A i, j \in 1..Len(r) : i < j =>
          /\ r[i][1] # r[j][1]
          /\ r[i][2] >= r[j][2]
          /\ r[i][2] = r[j][2] => Position(c, r[i][1]) < Position(c, r[j][1])
    /\ \A k \in CounterKeys(c) \ {r[i][1] : i \in 1..Len(r)} :
          \A i \in 1..Len(r) :
             /\ r[i][2] >= CounterGet(c, k)
             /\ r[i][2] = CounterGet(c, k) => Position(c, r[i][1]) < Position(c, k)

\* C10: each of the six rankings of the Summary is the top_n of its mapping
\* by frequency, ties ranked and cut by first insertion.
C10_TopNByFrequencyThenInsertion ==
    pc = "done" =>
        LET n == results[1].top_n
            s == results[1].aggregate
        IN  /\ TopNOf(aggregate.entity_counter, s.top_entities, n)
            /\ TopNOf(aggregate.subject_counter, s.top_subjects, n)
            /\ TopNOf(aggregate.object_counter, s.top_objects, n)
            /\ TopNOf(aggregate.relation_counter, s.top_relations, n)
            /\ TopNOf(aggregate.year_counter, s.top_years, n)
            /\ TopNOf(aggregate.temporal_marker_counter, s.temporal_markers, n)

\* three entities, the most frequent not inserted first, and a tie between
\* the second and the third that top_n = 2 cuts
C10_Witness ==
    /\ pc = "done"
    /\ results[1].top_n = 2
    /\ Len(aggregate.entity_counter) = 3
    /\ aggregate.entity_counter[1][2] = aggregate.entity_counter[2][2]
    /\ aggregate.entity_counter[3][2] > aggregate.entity_counter[1][2]
    /\ results[1].aggregate.top_entities
          = <<aggregate.entity_counter[3], aggregate.entity_counter[1]>>

(***************************************************************************)
(* C13.  The chart tool extracts years as the core does: for every file    *)
(* of the run, whatever the dataset type, year_counts_for_file returns the *)
(* year_counter that process_file built from the same lines, so both are   *)
(* empty for a Generic dataset.                                            *)
(***************************************************************************)
\* C13: year_counts_for_file(lines, type) = process_file(lines, type).year_counter
\* for every file the run has read.
C13_ChartYearsEqualCoreYears ==
    /\ \A i \in 1..Len(files) :
          /\ ~year_counts_for_file_raises(files[i], dataset_type)
          /\ year_counts_for_file(files[i], dataset_type) = file_stats[i].year_counter
    /\ pc = "in_file" =>
          /\ ~year_counts_for_file_raises(file, dataset_type)
          /\ year_counts_for_file(file, dataset_type) = stats.year_counter
    /\ pc = "raised" => year_counts_for_file_raises(file, dataset_type)

(***************************************************************************)
(* C14.  Every year contribution updates the year range: in every Stats    *)
(* the run produces, on any dataset type, min_year and max_year are the    *)
(* smallest and the largest key of year_counter when it is not empty, and  *)
(* both are None when it is empty.                                         *)
(***************************************************************************)
YearRangeMatchesYears(st) ==
    IF st.year_counter = <<>>
    THEN st.min_year = None /\ st.max_year = None
    ELSE LET years == CounterKeys(st.year_counter)
         IN  /\ st.min_year # None /\ st.max_year # None
             /\ st.min_year[1] \in years /\ st.max_year[1] \in years
             /\ \A y \in years : st.min_year[1] <= y /\ y <= st.max_year[1]

\* C14: min_year and max_year are the least and the greatest key of
\* year_counter, or both None when it is empty, in every Stats produced.
C14_YearRangeCoversYearCounter ==
    \A st \in Produced : YearRangeMatchesYears(st)

(***************************************************************************)
(* C15.  Accumulate-then-merge equals accumulate-over-concatenation: the   *)
(* aggregate folded from the files' Stats is, field by field and with the  *)
(* insertion order of every mapping, the Stats of process_file on the      *)
(* files' lines concatenated; so is its Summary for every top_n; and       *)
(* merging any file's Stats into an empty Stats returns that Stats.        *)
(***************************************************************************)
RECURSIVE Concatenated(_)
Concatenated(fs) == IF fs = <<>> THEN <<>> ELSE Head(fs) \o Concatenated(Tail(fs))

\* C15: after every merge aggregate = process_file(f1 \o ... \o fn), the
\* Summaries agree for every top_n, and merge_stats(empty, st) = st.
C15_MergeEqualsConcatenation ==
    pc = "next_file" =>
        LET whole == process_file(Concatenated(files), dataset_type)
        IN  /\ aggregate = whole
            /\ \A n \in 0..MaxTopN : summarize(aggregate, n) = summarize(whole, n)
            /\ \A i \in 1..Len(file_stats) :
                  merge_stats(init_stats, file_stats[i]) = file_stats[i]

\* two files have been merged, the second one bringing a key the first has,
\* a key it has not, and temporal data
C15_Witness ==
    /\ pc = "next_file"
    /\ Len(files) >= 2
    /\ file_stats[1].triples > 0
    /\ file_stats[2].triples > 0
    /\ HasTemporal(file_stats[1])
    /\ HasTemporal(file_stats[2])
    /\ \E e \in CounterKeys(file_stats[2].entity_counter) :
          CounterHas(file_stats[1].entity_counter, e)
    /\ \E e \in CounterKeys(file_stats[2].entity_counter) :
          ~CounterHas(file_stats[1].entity_counter, e)
    /\ aggregate.triples = file_stats[1].triples + file_stats[2].triples

(***************************************************************************)
(* C11.  analyze ends in the fatal "no datasets found" outcome, with no    *)
(* split file opened, exactly when the base directory does not exist, has  *)
(* no subdirectory, or a non-empty name filter matches no subdirectory     *)
(* case-insensitively.                                                     *)
(***************************************************************************)
NothingToAnalyze ==
    \/ base_dir = None
    \/ \A e \in base_dir[1] : ~e.is_dir
    \/ /\ include # None
       /\ include[1] # {}
       /\ \A e \in base_dir[1] :
             e.is_dir => \A item \in include[1] : lower(item) # lower(e.name)

\* C11: once discovery is over, the outcome is "No dataset folders found"
\* exactly in the three cases, and then no file has been read.
C11_NoDatasetsFoundExactlyWhenNothingToAnalyze ==
    /\ pc # "discover" =>
          (outcome = Some("No dataset folders found") <=> NothingToAnalyze)
    /\ outcome = Some("No dataset folders found") =>
          files = <<>> /\ file_stats = <<>> /\ results = <<>>

(***************************************************************************)
(* C12.  The run is fail-fast with no partial output: nothing is printed   *)
(* and no JSON document is written before analyze() has returned the       *)
(* results of every selected dataset; a run that ends because process_file *)
(* raised has printed and written nothing, whatever datasets it finished.  *)
(***************************************************************************)
AllDatasetsProcessed ==
    /\ pc \in {"report", "exit"}
    /\ datasets # <<>>
    /\ Len(results) = Len(datasets)
    /\ \A i \in 1..Len(datasets) : results[i].dataset = datasets[i]

\* C12: output implies every dataset was processed, and a run aborted by
\* process_file has no output.
C12_NoOutputBeforeAllProcessed ==
    /\ (stdout # <<>> \/ json_file # None) => AllDatasetsProcessed
    /\ outcome = Some("process_file raised") =>
          stdout = <<>> /\ json_file = None

\* process_file raised in the second dataset after the first one was
\* processed, with triples, and stored in results
C12_Witness ==
    /\ outcome = Some("process_file raised")
    /\ Len(datasets) = 2
    /\ Len(results) = 1
    /\ results[1].aggregate.triples > 0
    /\ dataset = datasets[2]
    /\ files # <<>>

====
